---- MODULE Spec2Model ----
(***************************************************************************)
(* Model of the lamoda_parser repository: the Detail Fetcher               *)
(* (src/main_parser.py, ProductDetailsParser) and the Link Collector       *)
(* (src/product_links_parser.py, ProductLinksParser).  Both are single     *)
(* threaded scripts; a process kill (crash) may happen between any two     *)
(* steps and loses everything but the files on disk.                       *)
(***************************************************************************)
EXTENDS Integers, Sequences, FiniteSets, TLC

\* ------------------------------------------------------------------ bounds
\* Number of product URLs in the Detail Fetcher's input file.
NumLinks == 2
\* Completed runs followed in the fixed-outcome specification.
MaxPasses == 2
\* Number of distinct product URLs the catalog can show.
NumUrls == 3
\* Largest number of product cards on one listing page.
MaxCards == 2
\* config.max_links of the Link Collector.
MaxLinksCfg == 2
\* Largest number of price-marker elements on one product page.
MaxPrices == 3

\* ------------------------------------------------------- program constants
\* range(3): download attempts per candidate image.
Attempts == 3

VARIABLES
    \* ---- Detail Fetcher: configuration (ParserConfig of main_parser.py)
    start_from,         \* config.start_from
    max_products,       \* config.max_products; 0 stands for None (both falsy)
    d_use_selenium,     \* config.use_selenium
    \* ---- Detail Fetcher: files on disk
    cp_file,            \* checkpoints/checkpoint.json
    units,              \* products_result/<index>/ : index -> set of file names
    \* ---- Detail Fetcher: the running process
    d_pc,               \* position of the process in run(); "idle" = no process
    product_links,      \* self.product_links
    current_index,      \* self.current_index
    idx,                \* loop variable of run()
    img_urls,           \* save_product: img_urls
    img_j,              \* save_product: position of the outer loop in img_urls
    saved,              \* save_product: saved
    \* ---- Detail Fetcher: history (not read by the program)
    run_cp,             \* checkpoint file as load_checkpoint found it
    touched,            \* indices fetched, saved or checkpointed in this run
    iter_cp,            \* checkpoint file as the iteration under way found it
    last_skip,          \* why the iteration just ended was skipped: "fetch",
                        \* "exc" (parse, makedirs, extract_image_urls),
                        \* "persist" (sentinel, data.json), "cp_open" and
                        \* "cp_dump" (save_checkpoint); "none" if it was not
    skip_cp,            \* checkpoint file as the skipped iteration found it
    requests,           \* requests.get calls made by the save_product under way
    last_ok,            \* the latest of them answered 200 and its image was written
    run_written,        \* last_index the running process wrote last; -1 if none
    last_end,           \* how the previous run ended: "none", "crash", "done";
                        \* "raised" (an exception left run(): load_links,
                        \* the driver's re-creation, os.remove) until the
                        \* next run enters the loop, for which it is a crash
    passes,             \* completed runs (counted in the fixed-outcome spec)
    first_pass,         \* units as the first completed run left them
    oracle,             \* fixed per-URL outcomes (fixed-outcome spec only)
    \* ---- Link Collector: configuration (ParserConfig of product_links_parser.py)
    start_page,         \* config.start_page
    end_page,           \* config.end_page; 0 stands for None (both falsy)
    min_links,          \* config.min_links
    max_links,          \* config.max_links
    use_selenium,       \* config.use_selenium
    catalog,            \* fixed-catalog spec only: what each page number gives
    \* ---- Link Collector: files on disk
    checkpoint_file,    \* checkpoint_links.json
    output_file,        \* lamoda_product_links.json (input_file of the fetcher)
    \* ---- Link Collector: the running process
    l_pc,               \* position of the process in run(); "idle" = no process,
                        \* "break" = the loop is left, save_results comes next
    collected_links,    \* self.collected_links
    current_page,       \* self.current_page
    \* ---- Link Collector: history (not read by the program)
    l_run_cp,           \* checkpoint file as the latest load_checkpoint found it
    fetched,            \* page URLs fetched by the latest run
    n_fetch,            \* get_page_html calls of the latest run
    over_fetch,         \* a page was fetched with max_links already reached
    l_last_end,         \* how the previous run ended
    \* ---- parse_product_page, on its own
    price_elements,     \* soup.find_all('span', class_='_price_g09b8_11')
    pd,                 \* the ProductData record
    p_pc                \* "ready" before parse_product_page, "parsed" after

dvars == <<start_from, max_products, d_use_selenium, cp_file, units, d_pc, product_links,
           current_index, idx, img_urls, img_j, saved, run_cp, touched,
           iter_cp, last_skip, skip_cp, requests,
           last_ok, run_written, last_end,
           passes, first_pass, oracle>>

lvars == <<start_page, end_page, min_links, max_links, use_selenium, catalog,
           checkpoint_file, output_file, l_pc, collected_links, current_page,
           l_run_cp, fetched, n_fetch, over_fetch, l_last_end>>

pvars == <<price_elements, pd, p_pc>>

vars == <<dvars, lvars, pvars>>

\* ------------------------------------------------------------ Detail Fetcher
\* config.input_file: both __main__ blocks name lamoda_product_links.json in
\* the working directory, so the fetcher reads the file the collector writes.
input_file == output_file

\* f"https://www.lamoda.ru{href}" for the href '/p/<i>'.
product_url(i) == [host |-> "https://www.lamoda.ru", dir |-> "p", id |-> i]

\* A list of NumLinks distinct product URLs, as the collector writes it.
InputLinks == [i \in 1..NumLinks |-> product_url(i)]

\* Python's seq[:n] for n >= 0.
Take(s, n) == IF n >= Len(s) THEN s ELSE SubSeq(s, 1, n)

\* load_links raises (open: FileNotFoundError on a missing file; json.load:
\* JSONDecodeError on an empty or cut-short one).
load_links_raises(f) == f.st # "ok"

\* load_links: read the list, truncate when max_products is truthy.
load_links(f, mp) == IF mp # 0 THEN Take(f.links, mp) ELSE f.links

\* The checkpoint file: absent, a complete {"last_index": k}, or torn
\* (opened with 'w', hence truncated, and not yet completely written).
CpAbsent == [st |-> "absent", last_index |-> -1]
CpTorn == [st |-> "torn", last_index |-> -1]
CpOk(k) == [st |-> "ok", last_index |-> k]

\* load_checkpoint resuming at last_index itself instead of the index after it.
load_checkpoint_at_last(cp, cur) == IF cp.st = "ok" THEN cp.last_index ELSE cur

\* load_checkpoint: last_index + 1 when the file parses and holds an int;
\* a missing file, or one json.load rejects (exception caught), leaves
\* current_index as the constructor set it.
load_checkpoint(cp, cur) == IF cp.st = "ok" THEN cp.last_index + 1 ELSE cur

\* Candidate image URLs: two with the extension .png (save_product writes
\* both to image.png) and one without an extension.
ImgA == [path |-> "a", ext |-> ".png"]
ImgB == [path |-> "b", ext |-> ".png"]
ImgC == [path |-> "c", ext |-> ""]

\* os.path.splitext(img_url)[1] or '.jpg', then 'image' + ext.
image_name(u) == "image" \o (IF u.ext = "" THEN ".jpg" ELSE u.ext)

ImageFiles == {image_name(ImgA), image_name(ImgB), image_name(ImgC)}

\* The galleries a product page can show: the lists extract_image_urls returns.
Galleries == {<<>>, <<ImgA>>, <<ImgB>>, <<ImgC>>, <<ImgA, ImgB>>, <<ImgB, ImgA>>}

\* What get_page_html can return: None, the empty string, or a page, of which
\* the model keeps the gallery's image URLs.
HtmlNone == [kind |-> "none", imgs |-> <<>>]
HtmlEmpty == [kind |-> "empty", imgs |-> <<>>]
HtmlPage(imgs) == [kind |-> "page", imgs |-> imgs]
Htmls == {HtmlNone, HtmlEmpty} \cup {HtmlPage(g) : g \in Galleries}

\* `if not html`: None and "" are both falsy.
not_html(h) == h.kind # "page"

\* extract_image_urls: the gallery images' URLs, in document order.
extract_image_urls(h) == h.imgs

Files(i) == IF i \in DOMAIN units THEN units[i] ELSE {}

HasData(i) == "data.json" \in Files(i)

\* The folder created afresh (emptied when it exists) instead of kept.
makedirs_fresh(u, i) == [k \in DOMAIN u \cup {i} |-> IF k = i THEN {} ELSE u[k]]

\* os.makedirs(folder, exist_ok=True)
makedirs(u, i) ==
    IF i \in DOMAIN u THEN u
    ELSE [k \in DOMAIN u \cup {i} |-> IF k = i THEN {} ELSE u[k]]

\* A write that keeps an existing file and writes a numbered copy beside it.
write_file_beside(u, i, name) ==
    [u EXCEPT ![i] = IF name \in @ THEN @ \cup {name \o ".1"} ELSE @ \cup {name}]

\* open(path, 'w') + write: the file exists afterwards, whatever was there.
write_file(u, i, name) == [u EXCEPT ![i] = @ \cup {name}]

\* What one attempt (requests.get(img_url), then open and f.write when the
\* status is 200) can do: "200" answers 200 and the image is written; "200w"
\* answers 200, open(img_path, 'wb') creates the file and f.write raises;
\* "404" answers another status; "exc" is requests.get (or the open) raising.
DlResults == {"200", "200w", "404", "exc"}

\* The three answers one candidate's attempts get, in order.
AttemptResults == [0..(Attempts - 1) -> DlResults]

\* One answer list for each way the inner loop can go.  Attempts after the
\* `break` are not made, a request that raises leaves what a status other
\* than 200 leaves, and one failed write leaves what several leave: the
\* lists kept have 404 for every attempt not made and every failure without
\* a file, and a failed write at the first attempt only.
AttemptRuns ==
    {rs \in AttemptResults :
        /\ \A a \in 0..(Attempts - 1) : rs[a] # "exc"
        /\ \A a \in 1..(Attempts - 1) : rs[a] # "200w"
        /\ \A a \in 0..(Attempts - 1) : \A b \in (a + 1)..(Attempts - 1) :
              rs[a] = "200" => rs[b] = "404"}

\* The inner loop `for attempt in range(3)` on one candidate: TRUE when an
\* attempt answers 200 (the image is written and saved set).
candidate_saved(rs) == \E a \in 0..(Attempts - 1) : rs[a] = "200"

\* The inner loop without the break: all three attempts whatever they answer.
attempts_made_all(rs) == Attempts

\* The attempts of one candidate that reach open(img_path, 'wb'): the file
\* exists afterwards whether or not f.write succeeded.
candidate_opened(rs, n) == \E a \in 0..(n - 1) : rs[a] \in {"200", "200w"}

\* How many of the three attempts the inner loop makes on one candidate:
\* `break` after the first 200, else all of range(3).
attempts_made(rs) ==
    IF candidate_saved(rs)
    THEN (CHOOSE a \in 0..(Attempts - 1) :
              /\ rs[a] = "200"
              /\ \A b \in 0..(a - 1) : rs[b] # "200") + 1
    ELSE Attempts

TypeOKDetails ==
    /\ start_from \in 0..NumLinks
    /\ cp_file.st \in {"absent", "torn", "ok"}
    /\ d_pc \in {"idle", "loop", "images", "saved", "cp_open"}
    /\ DOMAIN units \subseteq 0..(NumLinks - 1)

\* The configurations followed: start_from 0 (as in __main__) or 1,
\* max_products None (as in __main__) or one less than the list has, with
\* the Selenium engine (as in __main__); the requests engine from index 1.
DetailsConfigs ==
    \/ /\ start_from \in {0, 1}
       /\ max_products \in {0, NumLinks - 1}
       /\ d_use_selenium = TRUE
    \/ /\ start_from = 1
       /\ max_products = 0
       /\ d_use_selenium = FALSE

\* __main__ of main_parser.py: start_from=0, max_products=None.
DetailsDefaultConfig ==
    /\ start_from = 0
    /\ max_products = 0
    /\ d_use_selenium = TRUE
    /\ oracle = <<>>

\* Nothing has run yet: no checkpoint, no unit, no process.
DetailsNotStarted ==
    /\ cp_file = CpAbsent
    /\ units = <<>>
    /\ d_pc = "idle"
    /\ product_links = <<>>
    /\ current_index = 0
    /\ idx = 0
    /\ img_urls = <<>>
    /\ img_j = 1
    /\ saved = FALSE
    /\ run_cp = CpAbsent
    /\ touched = {}
    /\ iter_cp = CpAbsent
    /\ last_skip = "none"
    /\ skip_cp = CpAbsent
    /\ requests = 0
    /\ last_ok = FALSE
    /\ run_written = -1
    /\ last_end = "none"
    /\ passes = 0
    /\ first_pass = <<>>

InitDetailsCommon == DetailsConfigs /\ DetailsNotStarted

\* The process is gone (run() returned or the process was killed): nothing
\* of its memory is left.
ProcessGone ==
    /\ d_pc' = "idle"
    /\ product_links' = <<>>
    /\ current_index' = 0
    /\ idx' = 0
    /\ img_urls' = <<>>
    /\ img_j' = 1
    /\ saved' = FALSE
    /\ requests' = 0
    /\ last_ok' = FALSE
    /\ run_cp' = CpAbsent
    /\ touched' = {}
    /\ iter_cp' = CpAbsent
    /\ last_skip' = "none"
    /\ skip_cp' = CpAbsent
    /\ run_written' = -1

\* `continue` after save_checkpoint(idx) in place of the skip.
Skip_checkpointing ==
    /\ d_pc' = "loop"
    /\ idx' = idx + 1
    /\ img_urls' = <<>>
    /\ img_j' = 1
    /\ saved' = FALSE
    /\ requests' = 0
    /\ last_ok' = FALSE
    /\ cp_file' = CpOk(idx)
    /\ skip_cp' = iter_cp
    /\ iter_cp' = cp_file'
    /\ run_written' = idx
    /\ UNCHANGED <<product_links, current_index>>

\* `continue` that leaves the loop variable where it is.
Skip_same ==
    /\ d_pc' = "loop"
    /\ idx' = idx
    /\ img_urls' = <<>>
    /\ img_j' = 1
    /\ saved' = FALSE
    /\ requests' = 0
    /\ last_ok' = FALSE
    /\ UNCHANGED <<cp_file, product_links, current_index, run_written>>
    /\ skip_cp' = iter_cp
    /\ iter_cp' = cp_file'

\* `continue`: on to the next index, nothing written to the checkpoint.
Skip ==
    /\ d_pc' = "loop"
    /\ idx' = idx + 1
    /\ img_urls' = <<>>
    /\ img_j' = 1
    /\ saved' = FALSE
    /\ requests' = 0
    /\ last_ok' = FALSE
    /\ UNCHANGED <<cp_file, product_links, current_index, run_written>>
    /\ skip_cp' = iter_cp
    /\ iter_cp' = cp_file'

DConfig == <<start_from, max_products, d_use_selenium, oracle>>

\* A new process: __init__ (current_index = start_from), then run() up to
\* the loop: load_links, load_checkpoint.  load_links is enclosed by no try:
\* when it raises the exception leaves run() and the process ends.
DRun ==
    /\ d_pc = "idle"
    /\ IF load_links_raises(input_file)
       THEN /\ last_end' = "raised"
            /\ UNCHANGED <<d_pc, product_links, current_index, idx, run_cp,
                           touched, iter_cp>>
       ELSE /\ product_links' = load_links(input_file, max_products)
            /\ current_index' = load_checkpoint(cp_file, start_from)
            /\ idx' = current_index'
            /\ d_pc' = "loop"
            /\ run_cp' = cp_file
            /\ touched' = {}
            /\ last_end' = IF last_end = "raised" THEN "crash" ELSE last_end
            /\ iter_cp' = cp_file
    /\ UNCHANGED <<DConfig, cp_file, units, img_urls, img_j, saved,
                   last_skip, skip_cp, requests, last_ok,
                   run_written, passes, first_pass>>

\* One iteration up to the first image request: get_page_html(url) returns h;
\* `if not html` skips; else parse_product_page and the head of save_product
\* (makedirs, extract_image_urls).  ex names the call that raises, if any; the
\* exception reaches the except clause of run(), which skips the index.
\* extract_image_urls (urljoin) raises after makedirs made the folder.
DFetch(h, ex) ==
    /\ d_pc = "loop"
    /\ idx < Len(product_links)
    /\ touched' = touched \cup {idx}
    /\ IF not_html(h) \/ ex \in {"parse", "makedirs"}
       THEN /\ Skip
            /\ last_skip' = IF not_html(h) THEN "fetch" ELSE "exc"
            /\ UNCHANGED units
       ELSE IF ex = "extract"
       THEN /\ units' = makedirs(units, idx)
            /\ Skip
            /\ last_skip' = "exc"
       ELSE /\ units' = makedirs(units, idx)
            /\ img_urls' = extract_image_urls(h)
            /\ img_j' = 1
            /\ saved' = FALSE
            /\ d_pc' = "images"
            /\ last_skip' = "none"
            /\ skip_cp' = CpAbsent
            /\ requests' = 0
            /\ last_ok' = FALSE
            /\ UNCHANGED <<cp_file, product_links, current_index, idx,
                           iter_cp, run_written>>
    /\ UNCHANGED <<DConfig, run_cp, last_end, passes, first_pass>>

\* get_page_html with the Selenium engine finding the session dead
\* (driver.current_url raises): driver.quit() and uc.Chrome(options=options)
\* re-create it with no try around them.  Here one of them raises: the
\* exception leaves get_page_html and run(), and the process ends.  (When
\* they succeed get_page_html goes on to driver.get: that is DFetch.)
DFetchRaises ==
    /\ d_pc = "loop"
    /\ idx < Len(product_links)
    /\ d_use_selenium
    /\ ProcessGone
    /\ last_end' = "raised"
    /\ UNCHANGED <<DConfig, cp_file, units, passes, first_pass>>

\* save_product's loop body for one candidate: up to three requests.get,
\* answered rs[0], rs[1], rs[2].  The first 200 whose image file is written
\* sets saved and leaves both loops; an exception in an attempt (the write
\* included) is caught in the loop, which sleeps and goes on; after three
\* failures the next candidate.
DCandidate(rs) ==
    /\ d_pc = "images"
    /\ ~saved
    /\ img_j <= Len(img_urls)
    /\ units' = IF candidate_opened(rs, attempts_made(rs))
                THEN write_file(units, idx, image_name(img_urls[img_j]))
                ELSE units
    /\ IF candidate_saved(rs)
       THEN /\ saved' = TRUE
            /\ UNCHANGED img_j
       ELSE /\ img_j' = img_j + 1
            /\ UNCHANGED saved
    /\ requests' = requests + attempts_made(rs)
    /\ last_ok' = (rs[attempts_made(rs) - 1] = "200")
    /\ UNCHANGED <<DConfig, cp_file, d_pc, product_links, current_index, idx,
                   img_urls, run_cp, touched, iter_cp,
                   last_skip, skip_cp, run_written, last_end, passes,
                   first_pass>>

\* save_product with the failure to write data.json leaving run().
DSaveData_raise(ex) ==
    /\ d_pc = "images"
    /\ saved \/ img_j > Len(img_urls)
    /\ ex = "sentinel" => ~saved
    /\ LET u1 == IF ~saved /\ ex # "sentinel"
                 THEN write_file(units, idx, "no_image.txt") ELSE units
       IN IF ex # "none"
          THEN /\ units' = IF ex = "dump" THEN write_file(u1, idx, "data.json")
                           ELSE u1
               /\ ProcessGone
               /\ last_end' = "raised"
               /\ UNCHANGED <<cp_file>>
          ELSE /\ units' = write_file(u1, idx, "data.json")
               /\ d_pc' = "saved"
               /\ img_urls' = <<>>
               /\ img_j' = 1
               /\ saved' = FALSE
               /\ requests' = 0
               /\ last_ok' = FALSE
               /\ UNCHANGED <<cp_file, product_links, current_index, idx,
                              iter_cp, last_skip, skip_cp, run_cp, touched,
                              run_written, last_end>>
    /\ UNCHANGED <<DConfig, passes, first_pass>>

\* The tail of save_product once the loops are left: the sentinel when
\* nothing was saved, then data.json.  ex names the call that raises, if any:
\* "sentinel" is open(no_image.txt), "data" is open(data.json), "dump" is
\* json.dump after the open created data.json.  The exception is caught in
\* run(), which skips the index.
DSaveData(ex) ==
    /\ d_pc = "images"
    /\ saved \/ img_j > Len(img_urls)
    /\ ex = "sentinel" => ~saved
    /\ LET u1 == IF ~saved /\ ex # "sentinel"
                 THEN write_file(units, idx, "no_image.txt") ELSE units
       IN IF ex # "none"
          THEN /\ units' = IF ex = "dump" THEN write_file(u1, idx, "data.json")
                           ELSE u1
               /\ Skip
               /\ last_skip' = "persist"
          ELSE /\ units' = write_file(u1, idx, "data.json")
               /\ d_pc' = "saved"
               /\ img_urls' = <<>>
               /\ img_j' = 1
               /\ saved' = FALSE
               /\ requests' = 0
               /\ last_ok' = FALSE
               /\ UNCHANGED <<cp_file, product_links, current_index, idx,
                              iter_cp, last_skip, skip_cp, run_written>>
    /\ UNCHANGED <<DConfig, run_cp, touched, last_end, passes, first_pass>>

\* save_checkpoint, first half: open(cp_file, 'w') truncates the file.
\* ex = "open" is the open raising: the file is as it was, and the exception
\* is caught in run(), which skips to the next index.
DCpOpen(ex) ==
    /\ d_pc = "saved"
    /\ IF ex = "open"
       THEN /\ Skip
            /\ last_skip' = "cp_open"
       ELSE /\ cp_file' = CpTorn
            /\ d_pc' = "cp_open"
            /\ UNCHANGED <<product_links, current_index, idx, img_urls, img_j,
                           saved, iter_cp, last_skip, skip_cp,
                           requests, last_ok, run_written>>
    /\ UNCHANGED <<DConfig, units, run_cp, touched, last_end, passes,
                   first_pass>>

\* save_checkpoint writing the index that comes next.
DCpDump_next(ex) ==
    /\ d_pc = "cp_open"
    /\ IF ex = "dump"
       THEN /\ Skip
            /\ last_skip' = "cp_dump"
       ELSE /\ cp_file' = CpOk(idx + 1)
            /\ d_pc' = "loop"
            /\ idx' = idx + 1
            /\ iter_cp' = cp_file'
            /\ run_written' = idx + 1
            /\ UNCHANGED <<product_links, current_index, img_urls, img_j,
                           saved, last_skip, skip_cp, requests,
                           last_ok>>
    /\ UNCHANGED <<DConfig, units, run_cp, touched, last_end, passes,
                   first_pass>>

\* save_checkpoint, second half: json.dump and close; then the next index.
\* ex = "dump" is json.dump (or the closing flush) raising: the truncated
\* file stays, and the exception is caught in run(), which skips to the
\* next index.
DCpDump(ex) ==
    /\ d_pc = "cp_open"
    /\ IF ex = "dump"
       THEN /\ Skip
            /\ last_skip' = "cp_dump"
       ELSE /\ cp_file' = CpOk(idx)
            /\ d_pc' = "loop"
            /\ idx' = idx + 1
            /\ iter_cp' = cp_file'
            /\ run_written' = idx
            /\ UNCHANGED <<product_links, current_index, img_urls, img_j,
                           saved, last_skip, skip_cp, requests,
                           last_ok>>
    /\ UNCHANGED <<DConfig, units, run_cp, touched, last_end, passes,
                   first_pass>>

\* run() returning without removing the checkpoint file.
DFinish_keep(counted, ex) ==
    /\ d_pc = "loop"
    /\ idx >= Len(product_links)
    /\ ex = "remove" => cp_file.st # "absent"
    /\ ProcessGone
    /\ last_end' = IF ex = "remove" THEN "raised" ELSE "done"
    /\ IF counted /\ ex # "remove"
       THEN /\ passes' = passes + 1
            /\ first_pass' = IF passes = 0 THEN units ELSE first_pass
       ELSE UNCHANGED <<passes, first_pass>>
    /\ UNCHANGED <<DConfig, cp_file, units>>

\* After the loop: remove the checkpoint file if it exists; run() returns.
\* ex = "remove" is os.remove raising on the existing file (enclosed by no
\* try): the file stays and the exception leaves run().
\* counted: the fixed-outcome specification counts the completed runs.
DFinish(counted, ex) ==
    /\ d_pc = "loop"
    /\ idx >= Len(product_links)
    /\ ex = "remove" => cp_file.st # "absent"
    /\ cp_file' = IF ex = "remove" THEN cp_file ELSE CpAbsent
    /\ ProcessGone
    /\ last_end' = IF ex = "remove" THEN "raised" ELSE "done"
    /\ IF counted /\ ex # "remove"
       THEN /\ passes' = passes + 1
            /\ first_pass' = IF passes = 0 THEN units ELSE first_pass
       ELSE UNCHANGED <<passes, first_pass>>
    /\ UNCHANGED <<DConfig, units>>

\* The process is killed.
DCrash ==
    /\ d_pc # "idle"
    /\ ProcessGone
    /\ last_end' = "crash"
    /\ UNCHANGED <<DConfig, cp_file, units, passes, first_pass>>

NextDetails ==
    \/ DRun /\ UNCHANGED <<lvars, pvars>>
    \/ \E h \in Htmls : DFetch(h, "none") /\ UNCHANGED <<lvars, pvars>>
    \/ \E g \in Galleries, ex \in {"parse", "makedirs", "extract"} :
          DFetch(HtmlPage(g), ex) /\ UNCHANGED <<lvars, pvars>>
    \/ DFetchRaises /\ UNCHANGED <<lvars, pvars>>
    \/ \E rs \in AttemptRuns : DCandidate(rs) /\ UNCHANGED <<lvars, pvars>>
    \/ \E ex \in {"none", "sentinel", "data", "dump"} :
          DSaveData(ex) /\ UNCHANGED <<lvars, pvars>>
    \/ \E ex \in {"none", "open"} : DCpOpen(ex) /\ UNCHANGED <<lvars, pvars>>
    \/ \E ex \in {"none", "dump"} : DCpDump(ex) /\ UNCHANGED <<lvars, pvars>>
    \/ \E ex \in {"none", "remove"} :
          DFinish(FALSE, ex) /\ UNCHANGED <<lvars, pvars>>
    \/ DCrash /\ UNCHANGED <<lvars, pvars>>

\* ------------------------------------------------------------ Link Collector
RECURSIVE SeqsUpTo(_, _)
SeqsUpTo(S, n) ==
    IF n = 0 THEN {<<>>}
    ELSE LET shorter == SeqsUpTo(S, n - 1)
         IN shorter \cup {Append(t, x) : t \in {q \in shorter : Len(q) = n - 1}, x \in S}

\* The href of a product card: None, '/p/<id>' or a path elsewhere.
HrefNone == [dir |-> "", id |-> 0]
Hrefs == {HrefNone, [dir |-> "x", id |-> 1]} \cup {[dir |-> "p", id |-> n] : n \in 1..NumUrls}

\* href and href.startswith('/p/')
is_product(href) == href # HrefNone /\ href.dir = "p"

\* f"https://www.lamoda.ru{href}"
full_url(href) == [host |-> "https://www.lamoda.ru", dir |-> href.dir, id |-> href.id]

\* A listing page: whether div.grid__catalog is there, and its cards' hrefs.
ListingPages == [grid : BOOLEAN, cards : SeqsUpTo(Hrefs, MaxCards)]

\* No page arrived.
NoPage == [grid |-> FALSE, cards |-> <<>>]

InSeq(x, q) == \E k \in 1..Len(q) : q[k] = x

\* The loop of parse_links_from_html over the cards from position k on, with
\* product_links as built so far.
RECURSIVE parse_cards(_, _, _, _)
parse_cards(cards, k, product, collected) ==
    IF k > Len(cards) THEN product
    ELSE LET href == cards[k]
             url == full_url(href)
         IN IF is_product(href) /\ ~InSeq(url, product) /\ ~InSeq(url, collected)
            THEN parse_cards(cards, k + 1, Append(product, url), collected)
            ELSE parse_cards(cards, k + 1, product, collected)

\* parse_links_from_html with `full_url not in self.collected_links` left out.
parse_links_unchecked(page, collected) ==
    IF ~page.grid THEN <<>> ELSE parse_cards(page.cards, 1, <<>>, <<>>)

\* parse_links_from_html: [] without the grid, else the cards' new links.
parse_links_from_html(page, collected) ==
    IF ~page.grid THEN <<>> ELSE parse_cards(page.cards, 1, <<>>, collected)

\* How a page fetch can go: the page arrives, the wait for the marker (or
\* the HTTP request) times out, or the navigation itself fails (network
\* error, dead browser session).
FetchEvents == {"ok", "timeout", "nav_error"}

\* get_page_html of the Link Collector: "html", "none" (None returned) or
\* "raise" (the exception leaves get_page_html).  With Selenium,
\* driver.get(url) is called outside the try block; with requests every call
\* is inside it.
l_get_page_html(selenium, ev) ==
    IF ev = "ok" THEN "html"
    ELSE IF selenium /\ ev = "nav_error" THEN "raise"
    ELSE "none"

\* The page URL: page 1 is the base URL alone, every other page N (page 0
\* too) is the base URL with ?page=N.
page_url(p) == IF p = 1 THEN [query |-> FALSE, page |-> 0] ELSE [query |-> TRUE, page |-> p]

\* The maximum test with > in place of >=.
reached_max_strict(links, max) == Len(links) > max

\* len(self.collected_links) >= self.config.max_links
reached_max(links, max) == Len(links) >= max

\* The test after save_checkpoint: enough links, an end page set and reached.
reached_target(links, page) ==
    Len(links) >= min_links /\ end_page # 0 /\ page >= end_page

\* The checkpoint file: absent, complete, or torn (truncated by open(.., 'w')
\* and not yet completely written).
LcpAbsent == [st |-> "absent", links |-> <<>>, current_page |-> 0]
LcpTorn == [st |-> "torn", links |-> <<>>, current_page |-> 0]
LcpOk(links, page) == [st |-> "ok", links |-> links, current_page |-> page]

\* The result file: absent, complete, or torn (truncated by open(.., 'w') and
\* not yet completely written).
OutAbsent == [st |-> "absent", links |-> <<>>]
OutTorn == [st |-> "torn", links |-> <<>>]
\* save_results, once json.dump has written the list and the file is closed.
save_results(links) == [st |-> "ok", links |-> links]

\* The configurations followed: start_page 0 (as in __main__) or 1 (the
\* default), end_page None or 2, min_links below or above max_links,
\* max_links 1 or the bound, both fetch engines.
LinksConfigs ==
    /\ start_page \in {0, 1}
    /\ end_page \in {0, 2}
    /\ min_links \in {1, MaxLinksCfg + 1}
    /\ max_links \in {1, MaxLinksCfg}
    /\ use_selenium \in BOOLEAN
    /\ catalog = <<>>

LinksDefaultConfig ==
    /\ start_page = 1
    /\ end_page = 0
    /\ min_links = 1
    /\ max_links = MaxLinksCfg
    /\ use_selenium = TRUE
    /\ catalog = <<>>

\* No collector process has run: no checkpoint, no process.
LinksIdle ==
    /\ checkpoint_file = LcpAbsent
    /\ l_pc = "idle"
    /\ collected_links = <<>>
    /\ current_page = 0
    /\ l_run_cp = LcpAbsent
    /\ fetched = {}
    /\ n_fetch = 0
    /\ over_fetch = FALSE
    /\ l_last_end = "none"

\* Nothing has run yet: no checkpoint, no result file, no process.
LinksNotStarted == LinksIdle /\ output_file = OutAbsent

\* The file the fetcher finds when the collector is not part of the run: a
\* complete list, no file, or a file cut short.
InputFiles == {save_results(InputLinks), OutAbsent, OutTorn}

LConfig == <<start_page, end_page, min_links, max_links, use_selenium, catalog>>

\* The process is gone: nothing of its memory is left.
LProcessGone(how) ==
    /\ l_pc' = "idle"
    /\ collected_links' = <<>>
    /\ current_page' = 0
    /\ l_last_end' = how

\* Leaving the loop by `break`: save_results comes next.
LStop ==
    /\ l_pc' = "break"
    /\ UNCHANGED <<output_file, collected_links, current_page, l_last_end>>

\* A new process: __init__, then load_checkpoint.  A file json.load rejects
\* raises out of run(): the process ends before the loop.
LRun ==
    /\ l_pc = "idle"
    /\ IF checkpoint_file.st = "torn"
       THEN /\ LProcessGone("raised_load")
            /\ l_run_cp' = checkpoint_file
            /\ fetched' = {}
            /\ n_fetch' = 0
            /\ UNCHANGED <<LConfig, checkpoint_file, output_file, over_fetch>>
       ELSE /\ l_pc' = "loop"
            /\ collected_links' =
                  IF checkpoint_file.st = "ok" THEN checkpoint_file.links ELSE <<>>
            /\ current_page' =
                  IF checkpoint_file.st = "ok" THEN checkpoint_file.current_page
                  ELSE start_page
            /\ l_run_cp' = checkpoint_file
            /\ fetched' = {}
            /\ n_fetch' = 0
            /\ UNCHANGED <<LConfig, checkpoint_file, output_file, over_fetch, l_last_end>>

\* The head of the loop with the maximum reached: break.
LStopMax ==
    /\ l_pc = "loop"
    /\ reached_max(collected_links, max_links)
    /\ LStop
    /\ UNCHANGED <<LConfig, checkpoint_file, over_fetch, l_run_cp, fetched,
                   n_fetch>>

\* The iteration without `if not new_links: break`.
LFetch_nobreak(ev, page) ==
    /\ l_pc = "loop"
    /\ ~reached_max(collected_links, max_links)
    /\ over_fetch' = (over_fetch \/ Len(collected_links) >= max_links)
    /\ fetched' = fetched \cup {page_url(current_page)}
    /\ n_fetch' = n_fetch + 1
    /\ LET got == l_get_page_html(use_selenium, ev)
           new_links == parse_links_from_html(page, collected_links)
       IN IF got = "raise"
          THEN LProcessGone("raised_fetch") /\ UNCHANGED output_file
          ELSE IF got = "none"
          THEN LStop
          ELSE /\ collected_links' = collected_links \o new_links
               /\ l_pc' = "extended"
               /\ UNCHANGED <<output_file, current_page, l_last_end>>
    /\ UNCHANGED <<LConfig, checkpoint_file, l_run_cp>>

\* One iteration up to save_checkpoint: the page of current_page is fetched
\* (event ev, content page); None breaks, no new link breaks, else the new
\* links are appended.
LFetch(ev, page) ==
    /\ l_pc = "loop"
    /\ ~reached_max(collected_links, max_links)
    /\ over_fetch' = (over_fetch \/ Len(collected_links) >= max_links)
    /\ fetched' = fetched \cup {page_url(current_page)}
    /\ n_fetch' = n_fetch + 1
    /\ LET got == l_get_page_html(use_selenium, ev)
           new_links == parse_links_from_html(page, collected_links)
       IN IF got = "raise"
          THEN LProcessGone("raised_fetch") /\ UNCHANGED output_file
          ELSE IF got = "none" \/ new_links = <<>>
          THEN LStop
          ELSE /\ collected_links' = collected_links \o new_links
               /\ l_pc' = "extended"
               /\ UNCHANGED <<output_file, current_page, l_last_end>>
    /\ UNCHANGED <<LConfig, checkpoint_file, l_run_cp>>

\* save_checkpoint, first half: open(checkpoint_file, 'w') truncates the file.
\* raises: the open raises; nothing in run() catches it and the process ends
\* with the file as it was.
LCpOpen(raises) ==
    /\ l_pc = "extended"
    /\ IF raises
       THEN LProcessGone("raised_save") /\ UNCHANGED checkpoint_file
       ELSE /\ checkpoint_file' = LcpTorn
            /\ l_pc' = "cp_open"
            /\ UNCHANGED <<collected_links, current_page, l_last_end>>
    /\ UNCHANGED <<LConfig, output_file, l_run_cp, fetched, n_fetch, over_fetch>>

\* save_checkpoint, second half (json.dump, close), then the rest of the
\* iteration: break at the target, else current_page += 1.  raises: json.dump
\* (or the closing flush) raises, the truncated file stays and the process
\* ends.
LCpDump(raises) ==
    /\ l_pc = "cp_open"
    /\ IF raises
       THEN LProcessGone("raised_save") /\ UNCHANGED <<checkpoint_file, output_file>>
       ELSE /\ checkpoint_file' = LcpOk(collected_links, current_page)
            /\ IF reached_target(collected_links, current_page)
               THEN LStop
               ELSE /\ current_page' = current_page + 1
                    /\ l_pc' = "loop"
                    /\ UNCHANGED <<output_file, collected_links, l_last_end>>
    /\ UNCHANGED <<LConfig, over_fetch, l_run_cp, fetched, n_fetch>>

\* save_results, first half: open(output_file, 'w') truncates the file.
\* raises: the open raises and the process ends with the file as it was.
LOutOpen(raises) ==
    /\ l_pc = "break"
    /\ IF raises
       THEN LProcessGone("raised_save") /\ UNCHANGED output_file
       ELSE /\ output_file' = OutTorn
            /\ l_pc' = "out_open"
            /\ UNCHANGED <<collected_links, current_page, l_last_end>>
    /\ UNCHANGED <<LConfig, checkpoint_file, l_run_cp, fetched, n_fetch, over_fetch>>

\* save_results, second half (json.dump, close); then run() returns.
\* raises: json.dump raises, the truncated file stays and the process ends.
LOutDump(raises) ==
    /\ l_pc = "out_open"
    /\ IF raises
       THEN LProcessGone("raised_save") /\ UNCHANGED output_file
       ELSE /\ output_file' = save_results(collected_links)
            /\ LProcessGone("done")
    /\ UNCHANGED <<LConfig, checkpoint_file, l_run_cp, fetched, n_fetch, over_fetch>>

\* The process is killed.
LCrash ==
    /\ l_pc # "idle"
    /\ LProcessGone("crash")
    /\ UNCHANGED <<LConfig, checkpoint_file, output_file, over_fetch, l_run_cp,
                   fetched, n_fetch>>

NextLinks ==
    \/ LRun /\ UNCHANGED <<dvars, pvars>>
    \/ LStopMax /\ UNCHANGED <<dvars, pvars>>
    \/ \E page \in ListingPages : LFetch("ok", page) /\ UNCHANGED <<dvars, pvars>>
    \/ \E ev \in FetchEvents \ {"ok"} : LFetch(ev, NoPage) /\ UNCHANGED <<dvars, pvars>>
    \/ \E raises \in BOOLEAN : LCpOpen(raises) /\ UNCHANGED <<dvars, pvars>>
    \/ \E raises \in BOOLEAN : LCpDump(raises) /\ UNCHANGED <<dvars, pvars>>
    \/ \E raises \in BOOLEAN : LOutOpen(raises) /\ UNCHANGED <<dvars, pvars>>
    \/ \E raises \in BOOLEAN : LOutDump(raises) /\ UNCHANGED <<dvars, pvars>>
    \/ LCrash /\ UNCHANGED <<dvars, pvars>>

\* -------------------------------------------------------- parse_product_page
\* Optional[str]: <<>> is None, <<t>> the string t.
None == <<>>
Some(t) == <<t>>

\* The texts a price element shows, and whether white space surrounds them.
PriceTexts == {"999", "1499"}
PriceElements == [text : PriceTexts, padded : BOOLEAN]

\* element.get_text(strip=True): the text without the surrounding white space.
get_text_strip(e) == e.text

\* ProductData(url=url): every other field at its default.
ProductData(url) == [url |-> url, price |-> None, old_price |-> None]

\* The price lines with the two assignments exchanged.
parse_prices_swapped(p, els) ==
    IF Len(els) >= 2
    THEN [p EXCEPT !.price = Some(get_text_strip(els[1])),
                   !.old_price = Some(get_text_strip(els[2]))]
    ELSE IF Len(els) >= 1
    THEN [p EXCEPT !.price = Some(get_text_strip(els[1]))]
    ELSE p

\* parse_product_page, the price lines: two or more elements give old_price
\* and price from the first two, one gives price, none leaves both None.
parse_prices(p, els) ==
    IF Len(els) >= 2
    THEN [p EXCEPT !.old_price = Some(get_text_strip(els[1])),
                   !.price = Some(get_text_strip(els[2]))]
    ELSE IF Len(els) >= 1
    THEN [p EXCEPT !.price = Some(get_text_strip(els[1]))]
    ELSE p

\* parse_product_page is not running.
ParseNotStarted ==
    /\ price_elements = <<>>
    /\ pd = ProductData(1)
    /\ p_pc = "parsed"

\* A page with any price elements is about to be parsed.
InitParse ==
    /\ price_elements \in SeqsUpTo(PriceElements, MaxPrices)
    /\ pd = ProductData(1)
    /\ p_pc = "ready"
    /\ DetailsDefaultConfig /\ DetailsNotStarted
    /\ LinksDefaultConfig /\ LinksNotStarted

\* parse_product_page(html, url) on the page.
PParse ==
    /\ p_pc = "ready"
    /\ pd' = parse_prices(pd, price_elements)
    /\ p_pc' = "parsed"
    /\ UNCHANGED <<price_elements, dvars, lvars>>

NextParse == PParse

SpecParse == InitParse /\ [][NextParse]_vars

\* ----------------------------------------------- Link Collector, fixed catalog
\* What a page number gives every time it is fetched: the fetch event and the
\* page that arrives.
CatalogEntry(ev, cards) == [ev |-> ev, page |-> [grid |-> TRUE, cards |-> cards]]

\* The cards '/p/a' .. '/p/b'.
CardRun(a, b) == [k \in 1..(b - a + 1) |-> [dir |-> "p", id |-> a + k - 1]]

\* The entries followed: a timeout, a failed navigation, a listing without
\* cards, and the listings of up to MaxCards consecutive products.
CatalogEntries ==
    {[ev |-> "timeout", page |-> NoPage], [ev |-> "nav_error", page |-> NoPage],
     CatalogEntry("ok", <<>>)}
    \cup {CatalogEntry("ok", CardRun(r[1], r[2])) :
            r \in {q \in (1..NumUrls) \X (1..NumUrls) :
                      q[1] <= q[2] /\ q[2] - q[1] < MaxCards}}

\* The catalog has pages 1..MaxLinksCfg; past its end the site shows a
\* listing without cards.
CatalogAt(p) ==
    IF p \in DOMAIN catalog THEN catalog[p] ELSE CatalogEntry("ok", <<>>)

\* run() from the top of the loop holding links at page p, never interrupted:
\* the list save_results writes, or raised when the fetch raises.
RECURSIVE run_loop(_, _)
run_loop(links, p) ==
    IF reached_max(links, max_links) THEN [raised |-> FALSE, links |-> links]
    ELSE LET got == l_get_page_html(use_selenium, CatalogAt(p).ev)
             new_links == parse_links_from_html(CatalogAt(p).page, links)
         IN IF got = "raise" THEN [raised |-> TRUE, links |-> <<>>]
            ELSE IF got = "none" \/ new_links = <<>>
            THEN [raised |-> FALSE, links |-> links]
            ELSE IF reached_target(links \o new_links, p)
            THEN [raised |-> FALSE, links |-> links \o new_links]
            ELSE run_loop(links \o new_links, p + 1)

\* The run that starts without a checkpoint and is never interrupted.
Uninterrupted == run_loop(<<>>, start_page)

InitLinksFixed ==
    /\ start_page = 1
    /\ end_page \in {0, 2}
    /\ min_links = 1
    /\ max_links = MaxLinksCfg
    /\ use_selenium \in BOOLEAN
    /\ catalog \in [1..MaxLinksCfg -> CatalogEntries]
    /\ LinksNotStarted
    /\ DetailsDefaultConfig /\ DetailsNotStarted
    /\ ParseNotStarted

NextLinksFixed ==
    \/ LRun /\ UNCHANGED <<dvars, pvars>>
    \/ LStopMax /\ UNCHANGED <<dvars, pvars>>
    \/ /\ l_pc = "loop"
       /\ LFetch(CatalogAt(current_page).ev, CatalogAt(current_page).page)
       /\ UNCHANGED <<dvars, pvars>>
    \/ LCpOpen(FALSE) /\ UNCHANGED <<dvars, pvars>>
    \/ LCpDump(FALSE) /\ UNCHANGED <<dvars, pvars>>
    \/ LOutOpen(FALSE) /\ UNCHANGED <<dvars, pvars>>
    \/ LOutDump(FALSE) /\ UNCHANGED <<dvars, pvars>>
    \/ LCrash /\ UNCHANGED <<dvars, pvars>>

SpecLinksFixed == InitLinksFixed /\ [][NextLinksFixed]_vars

\* The Link Collector alone: the Detail Fetcher is never started.
InitLinks ==
    /\ LinksConfigs /\ LinksNotStarted
    /\ DetailsDefaultConfig /\ DetailsNotStarted
    /\ ParseNotStarted

SpecLinks == InitLinks /\ [][NextLinks]_vars

\* The Link Collector never killed and its disk never failing.  A step of
\* the running process: the interpreter goes on to the next statement, every
\* fetch ends (by a page, by the time-out of the wait or of the request, or
\* by an exception) and every file write succeeds.  The pages that arrive
\* are those of CatalogEntries.
LStep ==
    \/ LStopMax /\ UNCHANGED <<dvars, pvars>>
    \/ \E e \in CatalogEntries : LFetch(e.ev, e.page) /\ UNCHANGED <<dvars, pvars>>
    \/ LCpOpen(FALSE) /\ UNCHANGED <<dvars, pvars>>
    \/ LCpDump(FALSE) /\ UNCHANGED <<dvars, pvars>>
    \/ LOutOpen(FALSE) /\ UNCHANGED <<dvars, pvars>>
    \/ LOutDump(FALSE) /\ UNCHANGED <<dvars, pvars>>

NextLinksLive ==
    \/ LRun /\ UNCHANGED <<dvars, pvars>>
    \/ LStep

SpecLinksLive == InitLinks /\ [][NextLinksLive]_vars /\ WF_vars(LStep)

\* The Detail Fetcher alone: the Link Collector is never started.
InitDetails ==
    /\ InitDetailsCommon
    /\ oracle = <<>>
    /\ LinksDefaultConfig
    /\ LinksIdle
    /\ output_file \in InputFiles
    /\ ParseNotStarted

SpecDetails == InitDetails /\ [][NextDetails]_vars

\* Both scripts, run in one working directory in any interleaving: the
\* collector writes lamoda_product_links.json, the fetcher loads it when a
\* run starts.
Init ==
    /\ InitDetailsCommon
    /\ oracle = <<>>
    /\ LinksConfigs
    /\ LinksNotStarted
    /\ ParseNotStarted

Next == NextDetails \/ NextLinks

Spec == Init /\ [][Next]_vars

\* ------------------------------------------------- Link Collector: claims
NoDup(q) == \A a, b \in 1..Len(q) : a # b => q[a] # q[b]

IsPrefix(a, b) == Len(a) <= Len(b) /\ \A k \in 1..Len(a) : a[k] = b[k]

\* C3: the accumulated list, the checkpoint and the result file never hold a
\* URL twice, and links are only ever appended: the running process's list
\* extends the checkpoint's and the result file's, and the result file's
\* list is a prefix of the checkpoint's.
C3_DedupAppendOnly ==
    /\ NoDup(collected_links)
    /\ NoDup(checkpoint_file.links)
    /\ NoDup(output_file.links)
    /\ (l_pc # "idle" /\ checkpoint_file.st = "ok") =>
          IsPrefix(checkpoint_file.links, collected_links)
    /\ l_pc # "idle" => IsPrefix(output_file.links, collected_links)
    /\ checkpoint_file.st = "ok" =>
          IsPrefix(output_file.links, checkpoint_file.links)

\* C3 witness: after an earlier run wrote a result file with links, a run
\* resumed from a checkpoint has appended new links.
C3_Witness ==
    /\ l_pc = "extended"
    /\ l_run_cp.st = "ok"
    /\ Len(collected_links) > Len(l_run_cp.links)
    /\ Len(output_file.links) >= 1

\* C4: a run started from a checkpoint keeps the checkpoint's links, does not
\* go back before its current_page, and fetches none of the pages from
\* start_page to the checkpoint's current_page, which the earlier run fetched
\* and recorded.
C4_NoRefetch ==
    l_run_cp.st = "ok" =>
        /\ l_pc # "idle" => IsPrefix(l_run_cp.links, collected_links)
        /\ l_pc # "idle" => current_page >= l_run_cp.current_page
        /\ \A p \in start_page..l_run_cp.current_page : page_url(p) \notin fetched

\* C6: no page is fetched with max_links reached; a run that ends with
\* max_links or more links leaves them in the checkpoint as in the result.
C6_MaxStop ==
    /\ ~over_fetch
    /\ (l_pc = "idle" /\ l_last_end = "done" /\ Len(output_file.links) >= max_links) =>
          /\ checkpoint_file.st = "ok"
          /\ checkpoint_file.links = output_file.links

\* C6 witness: a run has ended with more links than max_links, the last
\* page's links having taken the count from below the maximum to above it.
C6_Witness ==
    /\ l_pc = "idle"
    /\ l_last_end = "done"
    /\ Len(output_file.links) > max_links
    /\ fetched # {}

\* C7: no run ends by an exception leaving get_page_html; a run that fetched
\* and ended has written the result file.
C7_FetchFailureReturned ==
    /\ l_last_end # "raised_fetch"
    /\ (l_pc = "idle" /\ l_last_end = "done") => output_file.st = "ok"

\* ------------------------------------------- Detail Fetcher, fixed outcomes
\* What one product URL does every time it is processed: the page the fetch
\* returns, the call that raises (if any), and each image URL's answers.
Outcome(h, ex, ra, rb) ==
    [html |-> h, ex |-> ex, dl |-> [u \in {ImgA, ImgB, ImgC} |-> IF u = ImgA THEN ra ELSE rb]]

Never == [a \in 0..(Attempts - 1) |-> "exc"]
AtOnce == [a \in 0..(Attempts - 1) |-> "200"]
AtLast == [a \in 0..(Attempts - 1) |-> IF a = Attempts - 1 THEN "200" ELSE "404"]
WriteFails == [a \in 0..(Attempts - 1) |-> "200w"]

Outcomes ==
    { Outcome(HtmlNone, "none", Never, Never),
      Outcome(HtmlPage(<<>>), "none", Never, Never),
      Outcome(HtmlPage(<<ImgA>>), "none", AtOnce, Never),
      Outcome(HtmlPage(<<ImgB>>), "none", Never, Never),
      Outcome(HtmlPage(<<ImgA, ImgC>>), "none", Never, AtLast),
      Outcome(HtmlPage(<<ImgA>>), "parse", AtOnce, Never),
      Outcome(HtmlPage(<<ImgC>>), "data", Never, AtOnce),
      Outcome(HtmlPage(<<ImgA>>), "extract", AtOnce, Never),
      Outcome(HtmlPage(<<ImgA, ImgB>>), "none", WriteFails, AtOnce),
      Outcome(HtmlPage(<<ImgA>>), "sentinel", AtOnce, Never),
      Outcome(HtmlPage(<<ImgB>>), "dump", Never, Never),
      Outcome(HtmlPage(<<ImgA>>), "cp_open", AtOnce, Never) }

InitDetailsFixed ==
    /\ InitDetailsCommon
    /\ oracle \in [1..NumLinks -> Outcomes]
    /\ LinksIdle
    /\ output_file = save_results(InputLinks)
    /\ LinksDefaultConfig
    /\ ParseNotStarted

\* The outcome of the URL at the loop's index.
Fixed == oracle[product_links[idx + 1].id]

NextDetailsFixed ==
    \/ passes < MaxPasses /\ DRun /\ UNCHANGED <<lvars, pvars>>
    \/ /\ d_pc = "loop" /\ idx < Len(product_links)
       /\ DFetch(Fixed.html, IF Fixed.ex \in {"parse", "makedirs", "extract"}
                             THEN Fixed.ex ELSE "none")
       /\ UNCHANGED <<lvars, pvars>>
    \/ /\ d_pc = "images" /\ img_j <= Len(img_urls)
       /\ DCandidate(Fixed.dl[img_urls[img_j]])
       /\ UNCHANGED <<lvars, pvars>>
    \/ /\ d_pc = "images"
       /\ DSaveData(IF Fixed.ex \in {"data", "dump"}
                       \/ (Fixed.ex = "sentinel" /\ ~saved)
                    THEN Fixed.ex ELSE "none")
       /\ UNCHANGED <<lvars, pvars>>
    \/ /\ d_pc = "saved"
       /\ DCpOpen(IF Fixed.ex = "cp_open" THEN "open" ELSE "none")
       /\ UNCHANGED <<lvars, pvars>>
    \/ DCpDump("none") /\ UNCHANGED <<lvars, pvars>>
    \/ \E ex \in {"none", "remove"} :
          DFinish(TRUE, ex) /\ UNCHANGED <<lvars, pvars>>

SpecDetailsFixed == InitDetailsFixed /\ [][NextDetailsFixed]_vars

\* ------------------------------------------------- Detail Fetcher: claims
Min(S) == CHOOSE x \in S : \A y \in S : x <= y

HasImage(i) == Files(i) \cap ImageFiles # {}
HasSentinel(i) == "no_image.txt" \in Files(i)

\* C1: a run that found the checkpoint {last_index: k} starts at k + 1 and
\* never fetches, saves or checkpoints an index <= k; a run that found no
\* checkpoint file starts at the configured start offset.
C1_Resume ==
    d_pc # "idle" =>
        /\ run_cp.st = "ok" =>
              /\ current_index = run_cp.last_index + 1
              /\ \A i \in touched : i > run_cp.last_index
              /\ touched # {} => Min(touched) = run_cp.last_index + 1
              /\ d_pc \in {"images", "saved", "cp_open"} => idx > run_cp.last_index
              /\ cp_file.st = "ok" => cp_file.last_index >= run_cp.last_index
        /\ run_cp.st = "absent" =>
              /\ current_index = start_from
              /\ touched # {} => Min(touched) = start_from

\* C1 witness: a run resumed from a checkpoint has processed an index.
C1_Witness == d_pc # "idle" /\ run_cp.st = "ok" /\ touched # {}

\* C2 as claimed: while the checkpoint holds last_index = k, every index the
\* pipeline has iterated over up to k has a unit holding data.json.  The first
\* run finds no checkpoint and starts at start_from, and every later run
\* starts at start_from or right after a checkpointed index, so the indices
\* iterated over up to k are start_from..k.
C2_AllBeforeSaved ==
    cp_file.st = "ok" =>
        \A i \in start_from..cp_file.last_index : HasData(i)

\* C2 as amended: while the checkpoint holds last_index = k, unit k holds
\* data.json and so does every index up to k for which save_product has ever
\* returned; an index that was only ever skipped may have no data.json.
C2_SavedStaySaved ==
    /\ [](cp_file.st = "ok" => HasData(cp_file.last_index))
    /\ [][(d_pc = "images" /\ d_pc' = "saved") => "data.json" \in units'[idx]]_vars
    /\ [][\A i \in DOMAIN units :
              HasData(i) => i \in DOMAIN units' /\ "data.json" \in units'[i]]_vars

\* C2 witness: a checkpoint beyond the start index, an earlier index saved.
C2_Witness ==
    /\ cp_file.st = "ok"
    /\ cp_file.last_index > start_from
    /\ HasData(start_from)

\* C5: after a crash the checkpoint file is a complete record (the previous
\* one, or none if there was none, or the new one), and the run started next
\* has before it at most one index whose unit already holds data.json.
C5_DurableCheckpoint ==
    /\ (d_pc = "idle" /\ last_end = "crash") => cp_file.st # "torn"
    /\ (d_pc = "loop" /\ last_end = "crash" /\ idx = current_index) =>
          Cardinality({i \in DOMAIN units : i >= idx /\ HasData(i)}) <= 1

\* C8 as claimed: whenever the process ends, unkilled, after the loop has
\* exhausted the list, no checkpoint file exists afterwards.
C8_NoCheckpointAfterLoop ==
    [][(/\ d_pc = "loop" /\ idx >= Len(product_links)
        /\ d_pc' = "idle" /\ last_end' # "crash") => cp_file'.st = "absent"]_vars

\* C8, amended: once run() has left the loop and returned, no checkpoint
\* file exists; a run that ends after the loop by an exception (os.remove
\* raising) had a checkpoint file and leaves it as it was.
C8_NoCheckpointAfterRun ==
    /\ []((d_pc = "idle" /\ last_end = "done") => cp_file.st = "absent")
    /\ [][(/\ d_pc = "loop" /\ idx >= Len(product_links)
            /\ d_pc' = "idle" /\ last_end' = "raised") =>
               /\ cp_file.st # "absent"
               /\ cp_file' = cp_file]_vars

\* C8 witness: a run has returned; units were written, one index was skipped
\* before its data.json.
C8_Witness ==
    /\ d_pc = "idle"
    /\ last_end = "done"
    /\ \E i \in DOMAIN units : HasData(i)
    /\ \E i \in 0..(NumLinks - 1) : ~HasData(i)

\* C9: every unit holding data.json, unless save_product is at work on it,
\* holds an image file or the sentinel and not both.
C9_ImageOrSentinel ==
    \A i \in DOMAIN units :
        (HasData(i) /\ ~(d_pc = "images" /\ i = idx)) =>
            (HasImage(i) # HasSentinel(i))

\* C10: with fixed per-URL outcomes, a second complete run (and any later one)
\* leaves the units exactly as the first left them, and no unit the first run
\* left is ever missing.
C10_Idempotent ==
    /\ (passes >= 2 /\ d_pc = "idle") => units = first_pass
    /\ passes >= 1 => DOMAIN first_pass \subseteq DOMAIN units

\* C10 witness: two complete runs; a unit with an image, one with the sentinel.
C10_Witness ==
    /\ passes = 2
    /\ d_pc = "idle"
    /\ \E i \in DOMAIN units : HasData(i) /\ HasImage(i)
    /\ \E i \in DOMAIN units : HasSentinel(i)

\* ---------------------------------------------- parse_product_page: claims
\* C11: after parse_product_page, two price elements found give old_price =
\* the first's text and price = the second's; exactly one gives price = its
\* text and old_price = None; none leaves both None.
C11_PriceParsing ==
    p_pc = "parsed" =>
        /\ Len(price_elements) = 2 =>
              /\ pd.old_price = Some(price_elements[1].text)
              /\ pd.price = Some(price_elements[2].text)
        /\ Len(price_elements) = 1 =>
              /\ pd.price = Some(price_elements[1].text)
              /\ pd.old_price = None
        /\ Len(price_elements) = 0 =>
              /\ pd.price = None
              /\ pd.old_price = None

\* C11 witness: a page with the two elements "999" and "1499" was parsed.
C11_Witness ==
    /\ p_pc = "parsed"
    /\ Len(price_elements) = 2
    /\ price_elements[1].text = "999"
    /\ price_elements[2].text = "1499"
    /\ pd.old_price = Some("999")
    /\ pd.price = Some("1499")

\* -------------------------------------------------- Detail Fetcher: the loop
\* The indices the running process has attempted are exactly those from the
\* run's start index up to the loop variable, with no gap and no repeat.
AttemptedInOrder ==
    /\ d_pc = "loop" =>
          touched = {i \in 0..(NumLinks - 1) : current_index <= i /\ i < idx}
    /\ d_pc \in {"images", "saved", "cp_open"} =>
          /\ idx < Len(product_links)
          /\ touched = {i \in 0..(NumLinks - 1) : current_index <= i /\ i <= idx}

\* C12 as claimed: every index from the start index to the end of the list is
\* attempted exactly once in ascending order whatever failure occurs, a dead
\* browser session included: a process that has not reached the end of the
\* list ends only by being killed.
C12_NeverAborts ==
    /\ []AttemptedInOrder
    /\ [][(d_pc = "loop" /\ idx < Len(product_links) /\ d_pc' = "idle") =>
              last_end' = "crash"]_vars

\* C12, amended: the indices are attempted exactly once in ascending order
\* whatever fetch, parse or save failure occurs.  A process that has not
\* reached the end of the list ends only by being killed or, with the
\* Selenium engine, by an exception at the head of an iteration (re-creating
\* a dead session raising); inside an iteration it ends only by being killed;
\* run() returns only with the list exhausted.  A run ends by an exception
\* only before the loop (load_links raising), at an index with the Selenium
\* engine, or after the loop with every index attempted (os.remove raising
\* on the checkpoint file).
C12_AbortsOnlyOutsideItems ==
    /\ []AttemptedInOrder
    /\ [][(d_pc = "loop" /\ idx < Len(product_links) /\ d_pc' = "idle") =>
              \/ last_end' = "crash"
              \/ last_end' = "raised" /\ d_use_selenium]_vars
    /\ [][(d_pc \in {"images", "saved", "cp_open"} /\ d_pc' = "idle") =>
              last_end' = "crash"]_vars
    /\ [][(d_pc # "idle" /\ d_pc' = "idle" /\ last_end' = "done") =>
              /\ d_pc = "loop"
              /\ idx >= Len(product_links)
              /\ touched = {i \in 0..(NumLinks - 1) :
                                current_index <= i /\ i < Len(product_links)}]_vars
    /\ [][last_end' = "raised" =>
              \/ d_pc = "idle" /\ load_links_raises(input_file)
              \/ d_pc = "loop" /\ idx < Len(product_links) /\ d_use_selenium
              \/ /\ d_pc = "loop" /\ idx >= Len(product_links)
                 /\ cp_file.st # "absent"]_vars

\* C12 witness: the loop reached the end of the full list from index 0 with
\* an index in between skipped.
C12_Witness ==
    /\ d_pc = "loop"
    /\ current_index = 0
    /\ idx = NumLinks
    /\ Len(product_links) = NumLinks
    /\ touched = 0..(NumLinks - 1)
    /\ \E i \in touched : i + 1 < idx /\ ~HasData(i)
    /\ HasData(idx - 1)

\* C13: when an iteration was skipped because the fetch failed or parsing or
\* saving raised (or save_checkpoint could not open the file), the checkpoint
\* file is exactly as the iteration found it (not written, not deleted) and
\* the loop is at the next index.
C13_SkipKeepsCheckpoint ==
    last_skip \in {"fetch", "exc", "persist", "cp_open"} =>
        /\ d_pc = "loop"
        /\ cp_file = skip_cp
        /\ idx - 1 \in touched
        /\ cp_file.st = "ok" => cp_file.last_index # idx - 1

\* C13 witness: an index was skipped after a failed fetch with a checkpoint
\* on disk, and the list has a further index.
C13_Witness ==
    /\ last_skip = "fetch"
    /\ cp_file.st = "ok"
    /\ skip_cp.st = "ok"
    /\ idx = cp_file.last_index + 2

\* C14 as claimed: a failure to write data.json is never turned into a skip
\* of the index (it leaves run() and ends the run).
C14_PersistFailurePropagates == last_skip # "persist"

\* C14, amended: a failure to write data.json (or the sentinel) is caught in
\* run() and skips the index: the loop is at the next index, the checkpoint
\* file is as the iteration found it, the unit directory exists; and a
\* process inside save_product ends only by being killed, never by the
\* exception.
C14_PersistFailureSkips ==
    /\ [](last_skip = "persist" =>
            /\ d_pc = "loop"
            /\ idx - 1 \in DOMAIN units
            /\ cp_file = skip_cp
            /\ cp_file.st = "ok" => cp_file.last_index # idx - 1)
    /\ [][(d_pc = "images" /\ d_pc' = "idle") => last_end' = "crash"]_vars

\* C14 witness: writing data.json of index 0 failed and the loop goes on
\* with index 1.
C14_Witness ==
    /\ last_skip = "persist"
    /\ d_pc = "loop"
    /\ idx = 1
    /\ idx < Len(product_links)
    /\ ~HasData(0)

\* C15 as claimed, its part on HTTP 200: an attempt answered with status 200
\* (seen by the image file it creates) is the last attempt of save_product.
C15_StopsAtFirst200 ==
    [][(/\ d_pc = "images" /\ d_pc' = "images"
        /\ image_name(img_urls[img_j]) \notin units[idx]
        /\ image_name(img_urls[img_j]) \in units'[idx]) => saved']_vars

\* C15, amended: in save_product the candidates are tried in list order; a
\* candidate is left only after three failed attempts; an attempt succeeds
\* when it answers 200 and its image file is written; no request follows the
\* first successful attempt, so the requests number at most three per
\* candidate; and when save_product returns, the sentinel was written
\* exactly when no attempt succeeded.
C15_RetryProtocol ==
    /\ [](d_pc = "images" =>
            /\ img_j \in 1..(Len(img_urls) + 1)
            /\ requests <= Attempts * Len(img_urls)
            /\ ~saved => /\ requests = Attempts * (img_j - 1)
                         /\ ~last_ok
            /\ saved => /\ img_j <= Len(img_urls)
                        /\ requests > Attempts * (img_j - 1)
                        /\ requests <= Attempts * img_j
                        /\ last_ok
                        /\ image_name(img_urls[img_j]) \in Files(idx))
    /\ [][(d_pc = "images" /\ d_pc' = "images") =>
              /\ img_j' \in {img_j, img_j + 1}
              /\ saved => UNCHANGED <<requests, units>>]_vars
    /\ [][(d_pc = "images" /\ d_pc' \in {"saved", "loop"}) =>
              /\ saved \/ requests = Attempts * Len(img_urls)
              /\ (~saved /\ d_pc' = "saved") => "no_image.txt" \in units'[idx]
              /\ saved => ("no_image.txt" \in units'[idx]
                             <=> "no_image.txt" \in units[idx])]_vars

\* C15 witness: in the first run ever, the first candidate was answered 200
\* with the write of its file failing (the file is there, nothing is saved)
\* and was left after three attempts; the second candidate comes next.
C15_Witness ==
    /\ d_pc = "images"
    /\ last_end = "none"
    /\ ~saved
    /\ img_urls = <<ImgA, ImgB>>
    /\ img_j = 2
    /\ requests = Attempts
    /\ image_name(ImgA) \in Files(idx)
    /\ "no_image.txt" \notin Files(idx)

\* C20: a checkpoint file holding last_index = k names a unit k that holds
\* data.json and an image file or the sentinel; and the values one run
\* writes are strictly increasing and lie between the run's start index and
\* the last index of the list.
C20_CheckpointNamesSavedUnit ==
    /\ [](cp_file.st = "ok" =>
            /\ cp_file.last_index \in DOMAIN units
            /\ HasData(cp_file.last_index)
            /\ HasImage(cp_file.last_index) \/ HasSentinel(cp_file.last_index))
    /\ [](d_pc # "idle" /\ run_written # -1 =>
            /\ run_written >= current_index
            /\ run_written <= Len(product_links) - 1)
    /\ [][(d_pc = "cp_open" /\ cp_file'.st = "ok") =>
              /\ cp_file'.last_index > run_written
              /\ run_written' = cp_file'.last_index]_vars

\* C20 witness: a run has written last_index = 0 and then 1; units 0 and 1
\* hold data.json, one with an image and one with the sentinel.
C20_Witness ==
    /\ d_pc = "loop"
    /\ current_index = 0
    /\ cp_file = CpOk(1)
    /\ run_written = 1
    /\ HasData(0) /\ HasData(1)
    /\ HasImage(0) /\ ~HasSentinel(0)
    /\ HasSentinel(1) /\ ~HasImage(1)

\* ------------------------------------------------- Link Collector: the loop
\* The number of links the latest run started with.
StartCount == Len(l_run_cp.links)

\* C16: a run that starts with fewer than max_links links never holds
\* max_links + MaxCards links or more, and neither does the result it writes
\* (MaxCards: the most new links one page can yield).
C16_OvershootBound ==
    StartCount < max_links =>
        /\ l_pc # "idle" => Len(collected_links) < max_links + MaxCards
        /\ (l_pc = "idle" /\ l_last_end = "done") =>
               /\ output_file.st = "ok"
               /\ Len(output_file.links) < max_links + MaxCards

\* C16 witness: a run that started below max_links wrote a result of
\* max_links + MaxCards - 1 links.
C16_Witness ==
    /\ l_pc = "idle"
    /\ l_last_end = "done"
    /\ StartCount < max_links
    /\ max_links = MaxLinksCfg
    /\ output_file.st = "ok"
    /\ Len(output_file.links) = max_links + MaxCards - 1

\* C17: with a fixed catalog, every run that returns, a run restarted after
\* a crash that followed a checkpoint save included, writes the result list
\* the uninterrupted run writes.
C17_CrashResumeEquivalent ==
    (l_pc = "idle" /\ l_last_end = "done" /\ ~Uninterrupted.raised) =>
        output_file = save_results(Uninterrupted.links)

\* C18: whatever the instant at which an earlier run was killed, the middle
\* of a checkpoint write included, no later run ends in load_checkpoint: it
\* loads the checkpoint and goes on to the loop.
C18_RestartLoads == l_last_end # "raised_load"

\* max(0, n)
Max0(n) == IF n > 0 THEN n ELSE 0

\* C19: a run whose fetches all end comes to its end, and when no fetch
\* raised it has written the result file; an iteration that goes on has
\* added at least one link; so a run that starts with n0 links fetches at
\* most max(0, max_links - n0) pages.
C19_Terminates ==
    /\ [](n_fetch <= Max0(max_links - StartCount))
    /\ [][(l_pc = "loop" /\ l_pc' = "extended") =>
              Len(collected_links') > Len(collected_links)]_vars
    /\ (l_pc # "idle") ~>
           /\ l_pc = "idle"
           /\ \/ l_last_end = "raised_fetch"
              \/ /\ l_last_end = "done"
                 /\ output_file.st = "ok"

\* C19 witness: a run that started with no link and max_links = MaxLinksCfg
\* has returned after max_links fetches and written the result file.
C19_Witness ==
    /\ l_pc = "idle"
    /\ l_last_end = "done"
    /\ StartCount = 0
    /\ max_links = MaxLinksCfg
    /\ n_fetch = max_links
    /\ output_file.st = "ok"
    /\ Len(output_file.links) >= max_links

====
